---------------------------- MODULE Spec2Model ----------------------------
(***************************************************************************)
(* The multi-period squad planner of optimization/team_planner.py.        *)
(*                                                                         *)
(* Team_Planner.build_model declares the decision variables of a mixed-   *)
(* integer program and adds its linear constraints; the external solver   *)
(* then returns any assignment of the variables that satisfies them.      *)
(* The state of this module is the planner's data (get_data), the         *)
(* parameters of build_model, and an assignment of the decision           *)
(* variables that is extended one gameweek at a time: every extension is  *)
(* drawn from a candidate domain and kept only if it passes the           *)
(* constraints, each of which is one operator con_<name> translated from  *)
(* the add_constraint(s) call of that name.                               *)
(*                                                                         *)
(* Team_Planner.select_chips_model is one action: its checks, the          *)
(* variables, objective and constraints it adds up to the point where it   *)
(* returns or raises.  The chip variables are assigned by two further      *)
(* solver steps, under the constraints the call added.                     *)
(*                                                                         *)
(* Team_Planner.solve is one action: the run of the external solver, whose *)
(* outcome and result file are inputs, the reset of the variables' values, *)
(* the decoding of the result file and the hand-over to pretty_print.      *)
(*                                                                         *)
(* Binary variables indexed by player are sets of players (p \in team[w]  *)
(* is team[p,w] = 1).  Reals are fixed-point: decay_gameweek and          *)
(* decay_bench are fractions Num/Den and the objective is scaled by the   *)
(* product of the denominators.                                           *)
(***************************************************************************)
EXTENDS Integers, FiniteSets, Sequences, TLC

VARIABLES
    stage,              \* "data" after __init__, "built" after build_model
    initial_team,       \* get_team: the manager's current squad
    bank,               \* get_team: money in the bank
    rolling_transfer,   \* get_rolling: free transfers carried in (0 or 1)
    transfer,           \* get_rolling: transfers made in week start-1
    objective_type,     \* build_model parameter
    ft_val,             \* build_model parameter, in units of 1/DecayBenchDen
    planned,            \* number of planned weeks assigned so far; -1: none
    team,               \* team[w]: squad of week w, w in all_gameweeks
    starter,            \* starter[w], w in gameweeks
    captain,
    vicecaptain,
    buy,
    sell,
    free_transfers,     \* free_transfers[w], w in all_gameweeks
    hits,               \* hits[w], w in gameweeks
    rolling_transfers,  \* rolling_transfers[w], w in gameweeks
    lineup_week,        \* the week whose lineup is assigned; 0: none
    freehit_used,       \* get_chips: the gameweek a chip was played in,
    wildcard_used,      \* 0 if it was never played
    bboost_used,
    threexc_used,
    chips,              \* outcome of select_chips_model; "none": not called
    freehit_gw,         \* the arguments of select_chips_model
    wildcard_gw,
    bboost_gw,
    threexc_gw,
    chips_objective_type,
    chip_variables,     \* TRUE once select_chips_model has added its variables
    chip_constraints,   \* names of the constraints select_chips_model added
    chips_objective,    \* TRUE once select_chips_model has set the objective
    freehit,            \* freehit[w], w in gameweeks
    wildcard,           \* wildcard[w]
    bboost,             \* bboost[w]
    threexc,            \* threexc[w]: the players p with threexc[p, w] = 1
    assigned_chips,     \* the chip variables assigned so far
    solution_file,      \* optimization/tmp/<model_name>_solution.txt
    process,            \* the last run of the solver command
    values,             \* the value of each variable of self.model
    values_before,      \* the values when the last solve was called
    result,             \* how the last solve ended; "none": not called
    report,             \* what the last solve handed to pretty_print
    solves              \* number of calls of solve

data_vars == <<initial_team, bank, rolling_transfer, transfer>>
param_vars == <<objective_type, ft_val>>
squad_vars == <<team, buy, sell, free_transfers, hits, rolling_transfers>>
lineup_vars == <<starter, captain, vicecaptain, lineup_week>>
used_vars == <<freehit_used, wildcard_used, bboost_used, threexc_used>>
call_vars == <<chips, freehit_gw, wildcard_gw, bboost_gw, threexc_gw,
               chips_objective_type, chip_variables, chip_constraints,
               chips_objective>>
chip_vars == <<freehit, wildcard, bboost, threexc, assigned_chips>>

solve_vars == <<solution_file, process, values, values_before, result,
                report, solves>>

vars == <<stage, data_vars, param_vars, planned, squad_vars, lineup_vars,
          used_vars, call_vars, chip_vars, solve_vars>>

-----------------------------------------------------------------------------
(* Bounds of the exploration *)

\* candidate assignments sell or buy at most this many players in a week
MaxTransfers == 2
\* candidate assignments give hits[w] a value up to this (the variable's own
\* upper bound is HitsUb)
MaxHits == 1
\* length of the transfer history read by get_rolling
MaxHistory == 2
\* number of calls of solve
MaxSolves == 2
\* largest value of a variable in a result file
MaxValue == 2
\* largest weekly transfer count in that history
MaxPastTransfers == 2
\* largest transfer count of the week at which that history stops (a week
\* of a wildcard or a free hit), where the histories are drawn that long
MaxChipWeekTransfers == 16
\* number of past gameweeks, counted back from start-1, in which a chip may
\* have been played
MaxChipWeeks == 1
\* chip offsets are tried down to this far below the sentinel -1
MaxBelowSentinel == 1
\* candidate captains and vice-captains: the players with the highest total_ev
NumCaptainCandidates == 2

-----------------------------------------------------------------------------
(* The player table (get_predictions joined with get_ownership_data) *)

\* Pos column: 1 G, 2 D, 3 M, 4 F (the map of utils.get_predictions)
Pos == <<"G", "G", "D", "D", "D", "D", "D", "M", "M", "M", "M", "M",
         "F", "F", "F", "M", "F">>
\* Team column, one-hot encoded by get_predictions
Club == <<1, 2, 3, 4, 5, 1, 2, 3, 4, 5, 1, 2, 3, 4, 5, 1, 6>>
\* SV column: the sale value
SV == <<5, 5, 5, 5, 5, 5, 5, 5, 5, 5, 5, 5, 7, 6, 5, 6, 6>>
\* the <w>_Pts columns, first column is week Start
Pts == << <<3, 3>>, <<2, 2>>, <<3, 2>>, <<2, 3>>, <<3, 3>>, <<2, 2>>,
          <<4, 3>>, <<3, 4>>, <<9, 8>>, <<4, 4>>, <<3, 3>>, <<8, 8>>,
          <<7, 7>>, <<5, 4>>, <<3, 4>>, <<6, 5>>, <<6, 7>> >>

Players == DOMAIN Pos
\* df.columns[-20:]: the one-hot club columns (the clubs of the table)
team_names == {Club[p] : p \in Players}

\* get_next_gw: the first unfinished gameweek
Start == 7
\* Team_Planner.__init__: horizon=5
Horizon == 5
NumPtsColumns == Len(Pts[1])

Min(a, b) == IF a < b THEN a ELSE b
Max(a, b) == IF a > b THEN a ELSE b

period == Min(Horizon, NumPtsColumns)
all_gameweeks == (Start - 1)..(Start + period - 1)
gameweeks == Start..(Start + period - 1)

PtsOf(p, w) == Pts[p][w - Start + 1]

RECURSIVE SetSum(_, _)
\* so.expr_sum / np.sum of f over the members of S
SetSum(S, f) ==
    IF S = {} THEN 0
    ELSE LET x == CHOOSE y \in S : TRUE
         IN  f[x] + SetSum(S \ {x}, f)

\* the value of a binary variable
Ind(S, p) == IF p \in S THEN 1 ELSE 0

total_ev == [p \in Players |-> SetSum(DOMAIN Pts[p], Pts[p])]

-----------------------------------------------------------------------------
(* utils.get_rolling *)

\* get_transfer_history: weekly transfer counts, most recent first; the loop
\* stops at the first week with more than one transfer
TransferHistories ==
    UNION {{h \in [1..n -> 0..MaxPastTransfers] :
                \A i \in 1..(n - 1) : h[i] <= 1} : n \in 1..MaxHistory}

\* the same histories, with up to MaxChipWeekTransfers in the week at which
\* the loop stops
LongTransferHistories ==
    UNION {{h \in [1..n -> 0..MaxChipWeekTransfers] :
                \A i \in 1..(n - 1) : h[i] <= 1} : n \in 1..MaxHistory}

RECURSIVE RollingFrom(_, _, _)
\* the loop of get_rolling over reversed(transfers), position i downto 1
RollingFrom(h, i, rolling) ==
    IF i = 0 THEN rolling
    ELSE RollingFrom(h, i - 1, Min(Max(rolling + 1 - h[i], 0), 1))

get_rolling(h) == <<RollingFrom(h, Len(h), 0), h[1]>>

-----------------------------------------------------------------------------
(* utils.get_chips *)

\* res['active_chip'] of a gameweek ("none": no chip played)
ActiveChips == {"none", "3xc", "bboost", "wildcard", "freehit"}

\* the active chip of every past gameweek 1..start-1
ChipHistories ==
    {[gw \in 1..(Start - 1) |->
         IF gw >= Start - MaxChipWeeks THEN g[gw] ELSE "none"] :
        g \in [(Start - MaxChipWeeks)..(Start - 1) -> ActiveChips]}

NoChipsPlayed == [gw \in 1..(Start - 1) |-> "none"]

RECURSIVE ChipsFrom(_, _, _)
\* the loop of get_chips: for gw in range(last_gw, 0, -1)
ChipsFrom(h, gw, used) ==
    IF gw = 0 THEN used
    ELSE ChipsFrom(h, gw - 1,
             [threexc |-> IF h[gw] = "3xc" THEN gw ELSE used.threexc,
              bboost |-> IF h[gw] = "bboost" THEN gw ELSE used.bboost,
              wildcard |-> IF h[gw] = "wildcard" /\ used.wildcard = 0
                           THEN gw ELSE used.wildcard,
              freehit |-> IF h[gw] = "freehit" THEN gw ELSE used.freehit])

get_chips(h) ==
    ChipsFrom(h, Start - 1,
              [freehit |-> 0, wildcard |-> 0, bboost |-> 0, threexc |-> 0])

-----------------------------------------------------------------------------
(* Team_Planner.get_data *)

budget == SetSum(initial_team, SV) + bank

InitialTeams == {1..15}
Banks == {0, 1}

EmptyAssignment ==
    /\ planned = -1
    /\ team = [w \in all_gameweeks |-> {}]
    /\ starter = [w \in gameweeks |-> {}]
    /\ captain = [w \in gameweeks |-> {}]
    /\ vicecaptain = [w \in gameweeks |-> {}]
    /\ buy = [w \in gameweeks |-> {}]
    /\ sell = [w \in gameweeks |-> {}]
    /\ free_transfers = [w \in all_gameweeks |-> 0]
    /\ hits = [w \in gameweeks |-> 0]
    /\ rolling_transfers = [w \in gameweeks |-> 0]
    /\ lineup_week = 0

\* select_chips_model not called: no chip variable, constraint or objective
NoChipExtension ==
    /\ chips = "none"
    /\ freehit_gw = -1
    /\ wildcard_gw = -1
    /\ bboost_gw = -1
    /\ threexc_gw = -1
    /\ chips_objective_type = "none"
    /\ chip_variables = FALSE
    /\ chip_constraints = {}
    /\ chips_objective = FALSE
    /\ freehit = [w \in gameweeks |-> 0]
    /\ wildcard = [w \in gameweeks |-> 0]
    /\ bboost = [w \in gameweeks |-> 0]
    /\ threexc = [w \in gameweeks |-> {}]
    /\ assigned_chips = {}

\* two of the variables of self.model (self.model.get_variables())
ModelVariables == {"buy", "hits"}

\* no result file of that name
NoFile == [status |-> "absent", lines |-> [v \in {} |-> 0]]

\* before the first solve: no result file, every variable at 0
NotSolved ==
    /\ solution_file = NoFile
    /\ process = "none"
    /\ values = [v \in ModelVariables |-> 0]
    /\ values_before = [v \in ModelVariables |-> 0]
    /\ result = "none"
    /\ report = <<>>
    /\ solves = 0

\* self.freehit_used, ... = get_chips(team_id, self.start - 1)
ChipsPlayed(h) ==
    /\ freehit_used = get_chips(h).freehit
    /\ wildcard_used = get_chips(h).wildcard
    /\ bboost_used = get_chips(h).bboost
    /\ threexc_used = get_chips(h).threexc

\* self.rolling_transfer, self.transfer = get_rolling(team_id, self.start - 1)
Rolling(histories) ==
    \E h \in histories :
        /\ rolling_transfer = get_rolling(h)[1]
        /\ transfer = get_rolling(h)[2]

\* a bank below zero: a budget short of the valuation of the current squad
Overdrafts == {-2, -1}

\* get_data but for the squad, the bank, the transfer history and the chips
\* played
GetData ==
    /\ stage = "data"
    /\ objective_type = "none"
    /\ ft_val = 0
    /\ EmptyAssignment
    /\ NoChipExtension
    /\ NotSolved

\* a manager who has played no chip
Init ==
    /\ GetData
    /\ bank \in Banks
    /\ Rolling(TransferHistories)
    /\ initial_team \in InitialTeams
    /\ ChipsPlayed(NoChipsPlayed)

-----------------------------------------------------------------------------
(* Team_Planner.build_model: parameters and objective *)

ObjectiveTypes == {"decay", "linear"}
FtVals == {0, 15}

\* decay_gameweek=0.9, decay_bench=0.1
DecayGameweekNum == 9
DecayGameweekDen == 10
DecayBenchNum == 1
DecayBenchDen == 10
HitCost == 4

RECURSIVE Pow(_, _)
Pow(b, e) == IF e = 0 THEN 1 ELSE b * Pow(b, e - 1)

\* np.power(decay_gameweek, i) if objective_type == 'linear' else 1,
\* scaled by DecayGameweekDen^(period-1)
Weight(ot, i) ==
    IF ot = "linear"
    THEN Pow(DecayGameweekNum, i) * Pow(DecayGameweekDen, period - 1 - i)
    ELSE Pow(DecayGameweekDen, period - 1)

BuildModel(ot, fv) ==
    /\ stage = "data"
    /\ stage' = "built"
    /\ objective_type' = ot
    /\ ft_val' = fv
    /\ UNCHANGED <<data_vars, planned, squad_vars, lineup_vars, used_vars,
                   call_vars, chip_vars, solve_vars>>

build_model == \E ot \in ObjectiveTypes, fv \in FtVals : BuildModel(ot, fv)

-----------------------------------------------------------------------------
(* Team_Planner.build_model: variable domains *)

\* ft: vartype=so.integer, lb=1, ub=2
FtLb == 1
FtUb == 2
\* hits: vartype=so.integer, lb=0, ub=15
HitsUb == 15

RECURSIVE SubsetsUpTo(_, _)
\* the subsets of S with at most k members
SubsetsUpTo(S, k) ==
    IF k <= 0 THEN {{}}
    ELSE LET smaller == SubsetsUpTo(S, k - 1)
         IN  smaller \cup {X \cup {p} : X \in smaller, p \in S}

SquadSize == 15
\* candidate squads of the anchor week: at least SquadSize - 1 players
CandidateSquads ==
    {Players \ X :
        X \in SubsetsUpTo(Players, Cardinality(Players) - SquadSize + 1)}

-----------------------------------------------------------------------------
(* Team_Planner.build_model: constraints *)

con_initial_team(t) == \A p \in initial_team : Ind(t, p) = 1

\* the carry-in taken as the free-transfer count itself
con_initial_ft_no_base(ft) == ft = rolling_transfer

con_initial_ft(ft) == ft = rolling_transfer + 1

\* the comparison turned round ("the cost of the squad must exceed the budget")
con_budget_exceeds(t) == SetSum(t, SV) >= budget

con_budget(t) == SetSum(t, SV) <= budget

con_15_players(t) == Cardinality(t) = SquadSize

ClubLimit == 3
\* the club limit off by one
con_team_limit_loose(t) ==
    \A c \in team_names :
        Cardinality({p \in t : Club[p] = c}) <= ClubLimit + 1

con_team_limit(t) ==
    \A c \in team_names :
        Cardinality({p \in t : Club[p] = c}) <= ClubLimit

\* expr_sum(x[p, w] * data.loc[p, pos]) over the one-hot position column
PosCount(S, pos) == Cardinality({p \in S : Pos[p] = pos})

SquadGk == 2
SquadDef == 5
SquadMid == 5
SquadFor == 3
con_gk_limit(t) == PosCount(t, "G") = SquadGk
con_def_limit(t) == PosCount(t, "D") = SquadDef
con_mid_limit(t) == PosCount(t, "M") = SquadMid
con_for_limit(t) == PosCount(t, "F") = SquadFor

\* the buys left out of the continuity equation
con_team_transfer_no_buy(tprev, b, s, t) ==
    \A p \in Players : Ind(t, p) = Ind(tprev, p) - Ind(s, p)

\* the sells left out of the continuity equation
con_team_transfer_no_sell(tprev, b, s, t) ==
    \A p \in Players : Ind(t, p) = Ind(tprev, p) + Ind(b, p)

con_team_transfer(tprev, b, s, t) ==
    \A p \in Players : Ind(t, p) = Ind(tprev, p) + Ind(b, p) - Ind(s, p)

con_rolling_ft_rel(ft, r) == ft = r + 1

con_single_buy_or_sell(b, s) == \A p \in Players : Ind(s, p) + Ind(b, p) <= 1

\* number_of_transfers[w]
number_of_transfers(w) ==
    IF w = Start - 1 THEN transfer ELSE Cardinality(sell[w])

RollingM1 == 2
con_rolling_condition_1(ftprev, nprev, r) == ftprev - nprev <= RollingM1 * r

RollingM2 == 14
\* the big-M term switched on by the indicator instead of its complement
con_rolling_condition_2_wrong_side(ftprev, nprev, r) ==
    ftprev - nprev >= r + (-RollingM2) * r

con_rolling_condition_2(ftprev, nprev, r) ==
    ftprev - nprev >= r + (-RollingM2) * (1 - r)

\* the operands of the difference swapped
con_hits_swapped(h, n, ft) == h >= ft - n

con_hits(h, n, ft) == h >= n - ft

Starters == 11
\* at least, instead of exactly, eleven starters
con_11_starters_at_least(st) == Cardinality(st) >= Starters

con_11_starters(st) == Cardinality(st) = Starters

con_1_captain(c) == Cardinality(c) = 1

con_1_vicecaptain(v) == Cardinality(v) = 1

con_cap_or_vice(c, v) == \A p \in Players : Ind(c, p) + Ind(v, p) <= 1

StartGk == 1
StartDefMin == 3
StartMidMin == 2
StartForMin == 1
\* the goalkeeper rule as a minimum, like the other three
con_gk_min_at_least(st) == PosCount(st, "G") >= StartGk

con_gk_min(st) == PosCount(st, "G") = StartGk
con_def_min(st) == PosCount(st, "D") >= StartDefMin
con_mid_min(st) == PosCount(st, "M") >= StartMidMin
con_for_min(st) == PosCount(st, "F") >= StartForMin

\* no link between the captain and the starters
con_captain_in_starters_none(c, st) == \A p \in Players : Ind(c, p) <= 1

con_captain_in_starters(c, st) == \A p \in Players : Ind(c, p) <= Ind(st, p)

con_vicecaptain_in_starters(v, st) ==
    \A p \in Players : Ind(v, p) <= Ind(st, p)

con_starters_in_team(st, t) == \A p \in Players : Ind(st, p) <= Ind(t, p)

-----------------------------------------------------------------------------
(* The solver's assignment, week by week *)

\* week start-1: team[., start-1] and ft[start-1]
SolveAnchor ==
    /\ stage = "built"
    /\ planned = -1
    /\ \E t \in CandidateSquads, ft \in FtLb..FtUb :
          /\ con_initial_team(t)
          /\ con_initial_ft(ft)
          /\ con_budget(t)
          /\ con_15_players(t)
          /\ team' = [team EXCEPT ![Start - 1] = t]
          /\ free_transfers' = [free_transfers EXCEPT ![Start - 1] = ft]
    /\ planned' = 0
    /\ UNCHANGED <<stage, data_vars, param_vars, buy, sell, hits,
                   rolling_transfers, lineup_vars, used_vars, call_vars,
                   chip_vars, solve_vars>>

\* candidate squads of a week for given buys and sells
TeamCandidates(tprev, b, s) ==
    {(tprev \cup b) \ s, tprev \cup b, tprev \ s, tprev}

\* a planned week w: buy, sell, team, ft, rolling, hits of week w
SolveWeek ==
    /\ stage = "built"
    /\ planned \in 0..(period - 1)
    /\ lineup_week = 0
    /\ LET w == Start + planned
           tprev == team[w - 1]
           ftprev == free_transfers[w - 1]
           nprev == number_of_transfers(w - 1)
       IN  \E s \in SubsetsUpTo(Players, MaxTransfers) :
           \E b \in SubsetsUpTo((Players \ tprev) \cup s, MaxTransfers) :
              /\ con_single_buy_or_sell(b, s)
              /\ \E t \in TeamCandidates(tprev, b, s) :
                    /\ con_15_players(t)
                    /\ con_team_transfer(tprev, b, s, t)
                    /\ con_budget(t)
                    /\ con_team_limit(t)
                    /\ con_gk_limit(t)
                    /\ con_def_limit(t)
                    /\ con_mid_limit(t)
                    /\ con_for_limit(t)
                    /\ \E ft \in FtLb..FtUb, r \in 0..1,
                          h \in 0..Min(HitsUb, MaxHits) :
                          /\ con_rolling_ft_rel(ft, r)
                          /\ con_rolling_condition_1(ftprev, nprev, r)
                          /\ con_rolling_condition_2(ftprev, nprev, r)
                          /\ con_hits(h, Cardinality(s), ft)
                          /\ team' = [team EXCEPT ![w] = t]
                          /\ buy' = [buy EXCEPT ![w] = b]
                          /\ sell' = [sell EXCEPT ![w] = s]
                          /\ free_transfers' = [free_transfers EXCEPT ![w] = ft]
                          /\ rolling_transfers' =
                                 [rolling_transfers EXCEPT ![w] = r]
                          /\ hits' = [hits EXCEPT ![w] = h]
    /\ planned' = planned + 1
    /\ UNCHANGED <<stage, data_vars, param_vars, lineup_vars, used_vars,
                   call_vars, chip_vars, solve_vars>>

\* candidate starters of a squad t: t without up to five of its players,
\* with up to one player from outside it
CandidateStarters(t) ==
    {(t \ x) \cup e :
        x \in SubsetsUpTo(t, SquadSize - Starters + 1),
        e \in SubsetsUpTo(Players \ t, 1)}

\* candidate captains and vice-captains: the NumCaptainCandidates players
\* with the highest total_ev (ties by id)
CaptainCandidates ==
    {p \in Players :
        Cardinality({q \in Players :
            \/ total_ev[q] > total_ev[p]
            \/ total_ev[q] = total_ev[p] /\ q < p}) < NumCaptainCandidates}

\* the lineup of the latest assigned week w: starter, captain, vicecaptain
SolveLineup ==
    /\ stage = "built"
    /\ lineup_week = 0
    /\ planned >= 1
    /\ \E w \in {Start + planned - 1} :
          \E st \in CandidateStarters(team[w]) :
             /\ con_11_starters(st)
             /\ con_gk_min(st)
             /\ con_def_min(st)
             /\ con_mid_min(st)
             /\ con_for_min(st)
             /\ con_starters_in_team(st, team[w])
             /\ \E c \in SUBSET CaptainCandidates,
                   v \in SUBSET CaptainCandidates :
                   /\ con_1_captain(c)
                   /\ con_1_vicecaptain(v)
                   /\ con_cap_or_vice(c, v)
                   /\ con_captain_in_starters(c, st)
                   /\ con_vicecaptain_in_starters(v, st)
                   /\ starter' = [starter EXCEPT ![w] = st]
                   /\ captain' = [captain EXCEPT ![w] = c]
                   /\ vicecaptain' = [vicecaptain EXCEPT ![w] = v]
                   /\ lineup_week' = w
    /\ UNCHANGED <<stage, data_vars, param_vars, planned, squad_vars,
                   used_vars, call_vars, chip_vars, solve_vars>>

-----------------------------------------------------------------------------
(* Team_Planner.build_model: the objective, scaled by                      *)
(* DecayBenchDen * DecayGameweekDen^(period-1)                             *)

\* the vice-captain's partial credit left out of the coefficient
PlayerCoef_no_vice(p, w) ==
    DecayBenchDen * (Ind(starter[w], p) + Ind(captain[w], p))
    + DecayBenchNum * (Ind(team[w], p) - Ind(starter[w], p))

\* the coefficient of data.loc[p, f'{w}_Pts'] in week w, times DecayBenchDen
PlayerCoef(p, w) ==
    DecayBenchDen * (Ind(starter[w], p) + Ind(captain[w], p))
    + DecayBenchNum * (Ind(vicecaptain[w], p) + Ind(team[w], p)
                       - Ind(starter[w], p))

\* the term of week w inside xp, for hits[w] = h
WeekTerm(w, h) ==
    SetSum(Players, [p \in Players |-> PlayerCoef(p, w) * PtsOf(p, w)])
    - HitCost * DecayBenchDen * h

\* xp, for the hit counts hs
xp(hs) ==
    SetSum(gameweeks,
           [w \in gameweeks |->
               Weight(objective_type, w - Start) * WeekTerm(w, hs[w])])

\* ftv: the value of a rolled free transfer, weeks after the first
ftv ==
    SetSum(gameweeks \ {Start},
           [w \in gameweeks \ {Start} |->
               Weight(objective_type, w - Start - 1)
               * ft_val * rolling_transfers[w]])

\* set_objective(- xp - ftv, sense='N'): the value the solver minimises
ObjectiveOf(hs) == (0 - xp(hs)) - ftv

Objective == ObjectiveOf(hits)

-----------------------------------------------------------------------------
(* Team_Planner.select_chips_model: checks, variables, constraints added *)

\* the offsets from which select_chips_model is called: -1 is "do not use"
ChipOffsets == (-1 - MaxBelowSentinel)..Horizon
\* the offsets of the planned weeks, and -1
PlannedOffsets == (-1)..(period - 1)

\* assert (<chip>_gw < self.horizon), for the four chips
WithinHorizon(fh, wc, bb, tc) ==
    /\ fh < Horizon
    /\ wc < Horizon
    /\ bb < Horizon
    /\ tc < Horizon

\* the assert of the wildcard left out
NotAlreadyUsed_but_wildcard(fh, wc, bb, tc) ==
    /\ ~(freehit_used # 0 /\ fh >= 0)
    /\ ~(bboost_used # 0 /\ bb >= 0)
    /\ ~(threexc_used # 0 /\ tc >= 0)

\* assert not (self.<chip>_used and <chip>_gw >= 0), for the four chips
NotAlreadyUsed(fh, wc, bb, tc) ==
    /\ ~(freehit_used # 0 /\ fh >= 0)
    /\ ~(wildcard_used # 0 /\ wc >= 0)
    /\ ~(bboost_used # 0 /\ bb >= 0)
    /\ ~(threexc_used # 0 /\ tc >= 0)

\* if <chip>_gw + 1: the truth value of an integer
Requested(gw) == gw + 1 # 0

\* the lookups of week start+bboost_gw in xp_bb: starter[p, w] and the
\* column f'{w}_Pts' exist for the planned weeks only
BboostIndexed(bb) == Requested(bb) => Start + bb \in gameweeks

\* the constraints each block adds, in order, and whether the block ends
\* normally: the lookup of a week outside self.gameweeks fails
FreehitBlock(fh) ==
    IF ~Requested(fh)
    THEN [names |-> {"freehit_unused"}, ok |-> TRUE]
    ELSE IF Start + fh \notin gameweeks
    THEN [names |-> {}, ok |-> FALSE]
    ELSE IF Start + fh + 1 \notin gameweeks
    THEN [names |-> {"initial_freehit"}, ok |-> FALSE]
    ELSE [names |-> {"initial_freehit", "initial_freehit2", "freehit_once",
                     "freehit1", "freehit2"},
          ok |-> TRUE]

WildcardBlock(wc) ==
    IF ~Requested(wc)
    THEN [names |-> {"wildcard_unused"}, ok |-> TRUE]
    ELSE IF Start + wc \notin gameweeks
    THEN [names |-> {}, ok |-> FALSE]
    ELSE [names |-> {"initial_wildcard", "wc_once"}, ok |-> TRUE]

BboostBlock(bb) ==
    IF ~Requested(bb)
    THEN [names |-> {"bboost_unused"}, ok |-> TRUE]
    ELSE IF Start + bb \notin gameweeks
    THEN [names |-> {}, ok |-> FALSE]
    ELSE [names |-> {"initial_bboost", "bboost_once"}, ok |-> TRUE]

ThreexcBlock(tc) ==
    IF ~Requested(tc)
    THEN [names |-> {"tc_unused"}, ok |-> TRUE]
    ELSE IF Start + tc \notin gameweeks
    THEN [names |-> {}, ok |-> FALSE]
    ELSE [names |-> {"initial_3xc", "tc_once", "3xc_is_cap"}, ok |-> TRUE]

\* the four blocks in order, up to the first that fails
ConstraintBlocks(fh, wc, bb, tc) ==
    LET f == FreehitBlock(fh)
        w == WildcardBlock(wc)
        b == BboostBlock(bb)
        t == ThreexcBlock(tc)
    IN  IF ~f.ok THEN [names |-> f.names, ok |-> FALSE]
        ELSE IF ~w.ok THEN [names |-> f.names \cup w.names, ok |-> FALSE]
        ELSE IF ~b.ok
        THEN [names |-> f.names \cup w.names \cup b.names, ok |-> FALSE]
        ELSE [names |-> f.names \cup w.names \cup b.names \cup t.names,
              ok |-> t.ok]

\* select_chips_model(freehit_gw, wildcard_gw, bboost_gw, threexc_gw,
\* objective_type): an exception leaves the method, and the program, at the
\* point where it is raised
SelectChipsModel(fh, wc, bb, tc, ot) ==
    /\ stage = "built"
    /\ chips = "none"
    /\ planned = -1
    /\ freehit_gw' = fh
    /\ wildcard_gw' = wc
    /\ bboost_gw' = bb
    /\ threexc_gw' = tc
    /\ chips_objective_type' = ot
    /\ IF ~WithinHorizon(fh, wc, bb, tc) \/ ~NotAlreadyUsed(fh, wc, bb, tc)
       THEN /\ chips' = "AssertionError"
            /\ stage' = "failed"
            /\ UNCHANGED <<chip_variables, chips_objective, chip_constraints>>
       ELSE /\ chip_variables' = TRUE
            /\ IF ~BboostIndexed(bb)
               THEN /\ chips' = "KeyError"
                    /\ stage' = "failed"
                    /\ UNCHANGED <<chips_objective, chip_constraints>>
               ELSE /\ chips_objective' = TRUE
                    /\ chip_constraints' =
                           ConstraintBlocks(fh, wc, bb, tc).names
                    /\ IF ConstraintBlocks(fh, wc, bb, tc).ok
                       THEN chips' = "added" /\ stage' = stage
                       ELSE chips' = "KeyError" /\ stage' = "failed"
    /\ UNCHANGED <<data_vars, param_vars, planned, squad_vars, lineup_vars,
                   used_vars, chip_vars, solve_vars>>

select_chips_model ==
    /\ chips = "none"
    /\ \E fh \in ChipOffsets, wc \in ChipOffsets, bb \in ChipOffsets,
          tc \in ChipOffsets, ot \in ObjectiveTypes :
          SelectChipsModel(fh, wc, bb, tc, ot)

\* freehit_gw and wildcard_gw at a planned week or -1, the other chips unused
select_chips_model_transfer ==
    /\ chips = "none"
    /\ \E fh \in PlannedOffsets, wc \in PlannedOffsets,
          ot \in ObjectiveTypes :
          SelectChipsModel(fh, wc, -1, -1, ot)

\* bboost_gw and threexc_gw at a planned week or -1, the other chips unused,
\* in the objective mode whose week weights differ
select_chips_model_lineup ==
    /\ chips = "none"
    /\ \E bb \in PlannedOffsets, tc \in PlannedOffsets :
          SelectChipsModel(-1, -1, bb, tc, "linear")

-----------------------------------------------------------------------------
(* Team_Planner.select_chips_model: variable domains and constraints *)

\* fh, wc: vartype=so.integer, lb=0, ub=15
ChipUb == 15

\* expr_sum(x[w] for w in self.gameweeks)
WeekSum(x) == SetSum(gameweeks, x)

con_initial_freehit(fh) ==
    fh[Start + freehit_gw] = hits[Start + freehit_gw]

con_initial_freehit2(fh) ==
    fh[Start + freehit_gw + 1] = hits[Start + freehit_gw]

con_freehit_once(fh) ==
    WeekSum(fh) = hits[Start + freehit_gw] + hits[Start + freehit_gw + 1]

\* the chip week's buys not tied to the next week's sells
con_freehit1_none ==
    \A p \in Players : Ind(buy[Start + freehit_gw], p) <= 1

con_freehit1 ==
    \A p \in Players :
        Ind(buy[Start + freehit_gw], p) = Ind(sell[Start + freehit_gw + 1], p)

con_freehit2 ==
    \A p \in Players :
        Ind(sell[Start + freehit_gw], p) = Ind(buy[Start + freehit_gw + 1], p)

con_freehit_unused(fh) == WeekSum(fh) = 0

con_initial_wildcard(wc) ==
    wc[Start + wildcard_gw] = hits[Start + wildcard_gw]

con_wc_once(wc) == WeekSum(wc) = hits[Start + wildcard_gw]

con_wildcard_unused(wc) == WeekSum(wc) = 0

con_initial_bboost(bb) == bb[Start + bboost_gw] = 1

con_bboost_once(bb) == WeekSum(bb) = 1

con_bboost_unused(bb) == WeekSum(bb) = 0

\* expr_sum(threexc[p, w] for p in self.players for w in self.gameweeks)
ThreexcSum(tc) == SetSum(gameweeks, [w \in gameweeks |-> Cardinality(tc[w])])

con_initial_3xc(tc) == Cardinality(tc[Start + threexc_gw]) = 1

con_tc_once(tc) == ThreexcSum(tc) = 1

\* no link between the tripled player and the captain
con_3xc_is_cap_none(tc) ==
    \A p \in Players : Ind(tc[lineup_week], p) <= 1

\* threexc[p, w] <= captain[p, w], for the week whose captain is assigned
con_3xc_is_cap(tc) ==
    \A p \in Players : Ind(tc[lineup_week], p) <= Ind(captain[lineup_week], p)

con_tc_unused(tc) == ThreexcSum(tc) = 0

\* a constraint binds if select_chips_model added it
Added(name, con) == name \in chip_constraints => con

\* freehit and wildcard, once every planned week's squad is assigned
SolveTransferChips ==
    /\ stage = "built"
    /\ chips = "added"
    /\ planned = period
    /\ {"freehit", "wildcard"} \cap assigned_chips = {}
    /\ \E fh \in [gameweeks -> 0..Min(ChipUb, MaxHits)] :
          /\ Added("initial_freehit", con_initial_freehit(fh))
          /\ Added("initial_freehit2", con_initial_freehit2(fh))
          /\ Added("freehit_once", con_freehit_once(fh))
          /\ Added("freehit1", con_freehit1)
          /\ Added("freehit2", con_freehit2)
          /\ Added("freehit_unused", con_freehit_unused(fh))
          /\ \E wc \in [gameweeks -> 0..Min(ChipUb, MaxHits)] :
                /\ Added("initial_wildcard", con_initial_wildcard(wc))
                /\ Added("wc_once", con_wc_once(wc))
                /\ Added("wildcard_unused", con_wildcard_unused(wc))
                /\ freehit' = fh
                /\ wildcard' = wc
    /\ assigned_chips' = assigned_chips \cup {"freehit", "wildcard"}
    /\ UNCHANGED <<stage, data_vars, param_vars, planned, squad_vars,
                   lineup_vars, used_vars, call_vars, bboost, threexc,
                   solve_vars>>

\* bboost and threexc, once the lineup of a planned week is assigned
SolveLineupChips ==
    /\ stage = "built"
    /\ chips = "added"
    /\ lineup_week # 0
    /\ {"bboost", "threexc"} \cap assigned_chips = {}
    /\ \E bb \in [gameweeks -> 0..1] :
          /\ Added("initial_bboost", con_initial_bboost(bb))
          /\ Added("bboost_once", con_bboost_once(bb))
          /\ Added("bboost_unused", con_bboost_unused(bb))
          /\ \E tc \in [gameweeks -> SUBSET CaptainCandidates] :
                /\ Added("initial_3xc", con_initial_3xc(tc))
                /\ Added("tc_once", con_tc_once(tc))
                /\ Added("3xc_is_cap", con_3xc_is_cap(tc))
                /\ Added("tc_unused", con_tc_unused(tc))
                /\ bboost' = bb
                /\ threexc' = tc
    /\ assigned_chips' = assigned_chips \cup {"bboost", "threexc"}
    /\ UNCHANGED <<stage, data_vars, param_vars, planned, squad_vars,
                   lineup_vars, used_vars, call_vars, freehit, wildcard,
                   solve_vars>>

-----------------------------------------------------------------------------
(* Team_Planner.select_chips_model: the objective, on the scale of xp *)

\* the coefficient of data.loc[p, f'{w}_Pts'] in week w of the extended xp,
\* times DecayBenchDen
ChipsPlayerCoef(p, w) ==
    DecayBenchDen * (Ind(starter[w], p) + Ind(captain[w], p)
                     + Ind(threexc[w], p))
    + DecayBenchNum * (Ind(vicecaptain[w], p) + Ind(team[w], p)
                       - Ind(starter[w], p))

\* 4 * (hits[w] - wildcard[w] - freehit[w]), times DecayBenchDen
HitPenalty(w) ==
    HitCost * DecayBenchDen * (hits[w] - wildcard[w] - freehit[w])

\* the term of week w inside the extended xp
ChipsWeekTerm(w) ==
    SetSum(Players, [p \in Players |-> ChipsPlayerCoef(p, w) * PtsOf(p, w)])
    - HitPenalty(w)

chips_xp ==
    SetSum(gameweeks,
           [w \in gameweeks |->
               Weight(chips_objective_type, w - Start) * ChipsWeekTerm(w)])

\* the boost weighted like the first planned week
BboostWeight_first_week == Weight(chips_objective_type, 0)

\* np.power(decay_gameweek, bboost_gw) if objective_type == 'linear' else 1
BboostWeight == Weight(chips_objective_type, bboost_gw)

\* the coefficient of data.loc[p, f'{w}_Pts'] inside xp_bb, for
\* w = start + bboost_gw, times DecayBenchDen
BboostCoef(p) ==
    (DecayBenchDen - DecayBenchNum)
    * (Ind(team[Start + bboost_gw], p) - Ind(starter[Start + bboost_gw], p))

xp_bb ==
    IF Requested(bboost_gw)
    THEN BboostWeight
         * SetSum(Players,
                  [p \in Players |->
                      BboostCoef(p) * PtsOf(p, Start + bboost_gw)])
    ELSE 0

\* set_objective(- xp - xp_bb, sense='N')
ChipsObjective == (0 - chips_xp) - xp_bb

-----------------------------------------------------------------------------
(* Team_Planner.solve *)

\* the first line of a result file: the status of the solver with the
\* objective value, or no such line
Statuses == {"Optimal", "Infeasible", "none"}

\* the result files the solver can write: a status line and one line
\* "<index> <name> <value>" for some of the variables
ResultFiles ==
    UNION {[status : Statuses, lines : [S -> 0..MaxValue]] :
              S \in SUBSET ModelVariables}

\* the values kept as they are
ResetValues_kept(vals) == vals

\* for v in self.model.get_variables(): v.set_value(0)
ResetValues(vals) == [v \in ModelVariables |-> 0]

\* the loop over the lines of the file: var.set_value(float(words[2]))
Decode(vals, lines) ==
    [v \in ModelVariables |->
        IF v \in DOMAIN lines THEN lines[v] ELSE vals[v]]

\* solve(model_name): the solver command runs and writes file f, or it is
\* missing or crashes and writes nothing
Solve(ran, f) ==
    /\ stage = "built"
    /\ solves < MaxSolves
    /\ solves' = solves + 1
    /\ process' = IF ran THEN "exited" ELSE "failed"
    /\ values_before' = values
    /\ LET file == IF ran THEN f ELSE solution_file
           reset == ResetValues(values)
       IN  /\ solution_file' = file
           /\ IF file = NoFile
              THEN /\ values' = reset
                   /\ result' = "FileNotFoundError"
                   /\ report' = <<>>
              ELSE /\ values' = Decode(reset, file.lines)
                   /\ result' = "returned"
                   /\ report' = <<Decode(reset, file.lines)>>
    /\ UNCHANGED <<stage, data_vars, param_vars, planned, squad_vars,
                   lineup_vars, used_vars, call_vars, chip_vars>>

solve ==
    \/ \E f \in ResultFiles : Solve(TRUE, f)
    \/ Solve(FALSE, NoFile)

-----------------------------------------------------------------------------
(* Specifications *)

Next == build_model \/ SolveAnchor \/ SolveWeek

\* the squad trajectory: team, buy, sell, ft, rolling, hits
Spec == Init /\ [][Next]_vars

\* build_model(model_name) with its default parameters
build_model_default == BuildModel("decay", 0)

InitLineup ==
    /\ Init
    /\ bank = 0
    /\ rolling_transfer = 0
    /\ transfer = 1

NextLineup ==
    build_model_default \/ SolveAnchor \/ SolveWeek \/ SolveLineup

\* one manager, default parameters: the trajectory and the lineup of a week
SpecLineup == InitLineup /\ [][NextLineup]_vars

\* one manager and the chips played in the past gameweeks
InitCall ==
    /\ GetData
    /\ bank \in Banks
    /\ Rolling(TransferHistories)
    /\ initial_team \in InitialTeams
    /\ bank = 0
    /\ rolling_transfer = 0
    /\ transfer = 1
    /\ \E h \in ChipHistories : ChipsPlayed(h)

NextCall == build_model_default \/ select_chips_model

\* the call of select_chips_model, for every offset of every chip
SpecCall == InitCall /\ [][NextCall]_vars

NextChips ==
    build_model \/ select_chips_model_transfer \/ SolveAnchor \/ SolveWeek
    \/ SolveTransferChips

\* one manager: the trajectory with free hit and wildcard
SpecChips == InitLineup /\ [][NextChips]_vars

\* a squad whose budget allows no transfer
BoostTeams == {(1..12) \cup {14, 15, 17}}

InitBoost ==
    /\ GetData
    /\ Rolling(TransferHistories)
    /\ ChipsPlayed(NoChipsPlayed)
    /\ initial_team \in BoostTeams
    /\ bank = 0
    /\ rolling_transfer = 0
    /\ transfer = 1

NextBoost ==
    build_model_default \/ select_chips_model_lineup \/ SolveAnchor
    \/ SolveWeek \/ SolveLineup \/ SolveLineupChips

\* one manager: the lineup of a week with bench boost and triple captain
SpecBoost == InitBoost /\ [][NextBoost]_vars

InitRolling ==
    /\ GetData
    /\ bank \in Banks
    /\ Rolling(LongTransferHistories)
    /\ initial_team \in InitialTeams
    /\ ChipsPlayed(NoChipsPlayed)

NextRolling == build_model_default \/ SolveAnchor \/ SolveWeek

\* the trajectory after every transfer history, a chip week's included
SpecRolling == InitRolling /\ [][NextRolling]_vars

\* the quotas of a squad of a planned week: team_limit and the four
\* position limits
SatisfiesQuotas(t) ==
    /\ con_team_limit(t)
    /\ con_gk_limit(t)
    /\ con_def_limit(t)
    /\ con_mid_limit(t)
    /\ con_for_limit(t)

\* current squads that break a quota: a sixth midfielder, the fourth player
\* of his club, in the place of a forward
QuotaBreakingTeams ==
    {t \in {((1..15) \ {x}) \cup {16} : x \in 13..15} : ~SatisfiesQuotas(t)}

InitQuota ==
    /\ GetData
    /\ Rolling(TransferHistories)
    /\ ChipsPlayed(NoChipsPlayed)
    /\ initial_team \in QuotaBreakingTeams
    /\ bank = 0
    /\ rolling_transfer = 0
    /\ transfer = 1

\* the plans of a manager whose current squad breaks a quota
SpecQuota == InitQuota /\ [][NextLineup]_vars

InitBank ==
    /\ GetData
    /\ bank \in Banks \cup Overdrafts
    /\ Rolling(TransferHistories)
    /\ initial_team \in InitialTeams
    /\ ChipsPlayed(NoChipsPlayed)

\* the trajectory of every manager, those with a bank below zero included
SpecBank == InitBank /\ [][Next]_vars

InitSolve ==
    /\ Init
    /\ bank = 0
    /\ rolling_transfer = 0
    /\ transfer = 1

NextSolve == build_model_default \/ solve

\* build_model and a sequence of calls of solve
SpecSolve == InitSolve /\ [][NextSolve]_vars

InitCarry ==
    /\ Init
    /\ bank = 0
    /\ rolling_transfer = 1

\* the plans of a manager with a carried-over free transfer and no bank
SpecCarry == InitCarry /\ [][NextLineup]_vars

-----------------------------------------------------------------------------
(* Properties of the assignments *)

\* the planned weeks assigned so far, and with the anchor week
AssignedWeeks == Start..(Start + planned - 1)
AssignedAllWeeks == (Start - 1)..(Start + planned - 1)

\* C1: in every assignment that satisfies the constraints, for every planned
\* week w the squad of w is the squad of w-1 without the players sold and with
\* the players bought (team = team_prev + buy - sell for every player), and
\* no player is bought and sold in the same week.
C1_TransferContinuity ==
    \A w \in AssignedWeeks :
        /\ \A p \in Players :
              /\ (p \in team[w]) <=>
                    \/ p \in team[w - 1] /\ p \notin sell[w]
                    \/ p \in buy[w]
              /\ p \in sell[w] => p \in team[w - 1]
              /\ p \in buy[w] => p \notin team[w - 1]
        /\ buy[w] \cap sell[w] = {}

\* a planned week in which players were both bought and sold
C1_Witness ==
    \E w \in AssignedWeeks :
        /\ Cardinality(buy[w]) = 2
        /\ Cardinality(sell[w]) = 2
        /\ team[w] # team[w - 1]

\* C2: every planned week has exactly 15 squad members, exactly 11 starters,
\* exactly one captain and exactly one vice-captain, and the captain is not
\* the vice-captain.
C2_Cardinalities ==
    \A w \in AssignedWeeks :
        /\ Cardinality(team[w]) = 15
        /\ lineup_week = w =>
              /\ Cardinality(starter[w]) = 11
              /\ Cardinality(captain[w]) = 1
              /\ Cardinality(vicecaptain[w]) = 1
              /\ captain[w] \cap vicecaptain[w] = {}

\* the lineup of the last planned week is assigned, after a transfer
C2_Witness ==
    /\ planned = period
    /\ lineup_week = Start + period - 1
    /\ starter[lineup_week] # {}
    /\ captain[lineup_week] # {}
    /\ buy[lineup_week] # {}

CountPos(S, pos) == Cardinality({p \in S : Pos[p] = pos})

\* C3: in every planned week the squad holds exactly 2 goalkeepers, 5
\* defenders, 5 midfielders and 3 forwards, and the starters hold exactly 1
\* goalkeeper, at least 3 defenders, at least 2 midfielders and at least 1
\* forward.
C3_PositionQuotas ==
    \A w \in AssignedWeeks :
        /\ CountPos(team[w], "G") = 2
        /\ CountPos(team[w], "D") = 5
        /\ CountPos(team[w], "M") = 5
        /\ CountPos(team[w], "F") = 3
        /\ lineup_week = w =>
              /\ CountPos(starter[w], "G") = 1
              /\ CountPos(starter[w], "D") >= 3
              /\ CountPos(starter[w], "M") >= 2
              /\ CountPos(starter[w], "F") >= 1

\* a lineup at the formation minimum: three defenders start, two are benched
C3_Witness ==
    /\ lineup_week # 0
    /\ CountPos(starter[lineup_week], "D") = 3
    /\ CountPos(starter[lineup_week], "G") = 1
    /\ CountPos(team[lineup_week] \ starter[lineup_week], "G") = 1

\* C4: in every planned week the captain is a starter, the vice-captain is a
\* starter, and every starter is a squad member.
C4_RoleContainment ==
    \A w \in AssignedWeeks :
        lineup_week = w =>
            /\ captain[w] \subseteq starter[w]
            /\ vicecaptain[w] \subseteq starter[w]
            /\ starter[w] \subseteq team[w]

\* a lineup with a captain and a vice-captain and four benched squad members
C4_Witness ==
    /\ lineup_week # 0
    /\ \E c \in starter[lineup_week], v \in starter[lineup_week] :
          /\ captain[lineup_week] = {c}
          /\ vicecaptain[lineup_week] = {v}
          /\ c # v
    /\ Cardinality(team[lineup_week] \ starter[lineup_week]) = 4

\* the summed sale value of a set of players
Valuation(S) == SetSum(S, SV)

C6_ClubQuota ==
    \A w \in AssignedWeeks :
        \A c \in team_names :
            Cardinality({p \in team[w] : Club[p] = c}) <= 3

\* a planned week in which a player was bought into a club that then holds
\* exactly three squad members
C6_Witness ==
    \E w \in AssignedWeeks :
        \E p \in buy[w] :
            Cardinality({q \in team[w] : Club[q] = Club[p]}) = 3

\* C7: when the current squad is 15 distinct players of the player table, the
\* anchor week's squad is exactly the current squad, and
\* free_transfers[start-1] is the carry-in plus 1.
C7_Anchor ==
    (initial_team \subseteq Players /\ Cardinality(initial_team) = 15
        /\ planned >= 0)
    => /\ team[Start - 1] = initial_team
       /\ free_transfers[Start - 1] = rolling_transfer + 1

\* the anchor week is assigned with a free transfer carried in
C7_Witness ==
    /\ planned >= 0
    /\ rolling_transfer = 1
    /\ free_transfers[Start - 1] = 2
    /\ team[Start - 1] = 1..15

\* free transfers left unused in week w
Surplus(w) == free_transfers[w] - number_of_transfers(w)

\* C8: for every planned week w, rolling_transfers[w] is 1 exactly when
\* free_transfers[w-1] minus the transfers made in week w-1 is at least 1,
\* and 0 otherwise; free_transfers[w] = rolling_transfers[w] + 1, which is 1
\* or 2.
C8_Rollover ==
    \A w \in AssignedWeeks :
        /\ rolling_transfers[w] = (IF Surplus(w - 1) >= 1 THEN 1 ELSE 0)
        /\ free_transfers[w] = rolling_transfers[w] + 1
        /\ free_transfers[w] \in {1, 2}

\* a negative surplus in the anchor week (no transfer rolls into the first
\* planned week), then an unused transfer that rolls into the second
C8_Witness ==
    /\ planned >= 2
    /\ Surplus(Start - 1) < 0
    /\ rolling_transfers[Start] = 0
    /\ Surplus(Start) = 1
    /\ rolling_transfers[Start + 1] = 1

\* the hit counts allowed by the bounds of hits and the constraint 'hits',
\* all other variables as assigned
HitsFeasible(hs) ==
    \A w \in gameweeks :
        /\ hs[w] \in 0..HitsUb
        /\ con_hits(hs[w], number_of_transfers(w), free_transfers[w])

\* a feasible assignment that differs in hits only and has a better objective
BetterHitsExist ==
    \E hs \in [gameweeks -> 0..HitsUb] :
        HitsFeasible(hs) /\ ObjectiveOf(hs) < Objective

\* the transfers of week w beyond the free ones
ExcessTransfers(w) == Max(0, number_of_transfers(w) - free_transfers[w])

\* C9: in every optimal solution of the base model, hits[w] = max(0,
\* transfers made in w - free_transfers[w]) for every planned week.  An
\* optimal solution is in particular no worse than the feasible assignments
\* that differ from it in hits only, and the formula is stated for every
\* complete assignment with that weaker property.
C9_OptimalHits ==
    planned = period =>
        \/ \A w \in gameweeks : hits[w] = ExcessTransfers(w)
        \/ BetterHitsExist

\* a complete assignment, optimal in hits, with a week of two transfers on
\* one free transfer (one hit) and a week within the free transfers (no hit)
C9_Witness ==
    /\ planned = period
    /\ ~BetterHitsExist
    /\ \E w \in gameweeks :
          /\ number_of_transfers(w) = 2
          /\ free_transfers[w] = 1
          /\ hits[w] = 1
    /\ \E w \in gameweeks :
          /\ number_of_transfers(w) <= free_transfers[w]
          /\ hits[w] = 0

\* decay_gameweek to the power i, on the scale of Weight
DecayPower(i) ==
    Pow(DecayGameweekNum, i) * Pow(DecayGameweekDen, period - 1 - i)

\* C10: with objective_type 'decay' the term of week start+i is weighted by
\* decay_gameweek to the power i, and in the other mode every week's term
\* has weight 1.
C10_DecayedMode ==
    stage = "built" =>
        \A i \in 0..(period - 1) :
            Weight(objective_type, i) =
                (IF objective_type = "decay"
                 THEN DecayPower(i) ELSE DecayPower(0))

\* the summed expected points of a set of players in week w
PtsSum(S, w) == SetSum(S, [p \in Players |-> PtsOf(p, w)])

\* C11: the base objective's contribution of a planned week, before week
\* weighting, is each starter's expected points once, the captain's once
\* more, decay_bench times the expected points of each benched squad member
\* and of the vice-captain, minus 4 times hits[w] (all times DecayBenchDen).
C11_WeekContribution ==
    \A w \in AssignedWeeks :
        lineup_week = w =>
            WeekTerm(w, hits[w]) =
                DecayBenchDen * (PtsSum(starter[w], w) + PtsSum(captain[w], w))
                + DecayBenchNum * (PtsSum(team[w] \ starter[w], w)
                                   + PtsSum(vicecaptain[w], w))
                - HitCost * DecayBenchDen * hits[w]

\* a lineup with a captain, a vice-captain and a bench, in a week with a hit
C11_Witness ==
    /\ lineup_week # 0
    /\ hits[lineup_week] = 1
    /\ captain[lineup_week] # {}
    /\ vicecaptain[lineup_week] # {}
    /\ team[lineup_week] \ starter[lineup_week] # {}

\* a feasible assignment of the extended model, as far as free hit and
\* wildcard go: every planned week's squad and the two chips are assigned
TransferChipsAssigned ==
    /\ chips = "added"
    /\ planned = period
    /\ {"freehit", "wildcard"} \subseteq assigned_chips

\* C12: in every feasible assignment of a model extended with the free hit
\* at offset k, the squad of week start+k+1 is the squad of week start+k-1
\* player for player: the buys of week start+k are exactly the sells of week
\* start+k+1 and the sells of week start+k are exactly the buys of week
\* start+k+1.
C12_FreeHitReverts ==
    (TransferChipsAssigned /\ freehit_gw >= 0) =>
        LET w == Start + freehit_gw
        IN  /\ \A p \in Players : (p \in team[w + 1]) <=> (p \in team[w - 1])
            /\ buy[w] = sell[w + 1]
            /\ sell[w] = buy[w + 1]

\* a free hit week with two transfers, reverted the week after
C12_Witness ==
    /\ TransferChipsAssigned
    /\ freehit_gw >= 0
    /\ Cardinality(buy[Start + freehit_gw]) = 2
    /\ team[Start + freehit_gw] # team[Start + freehit_gw - 1]
    /\ team[Start + freehit_gw + 1] # team[Start + freehit_gw]

\* the activations of a chip kind, per week: x is freehit, wildcard, bboost,
\* or the number of tripled players; gw is the offset the kind was called with
\* and used the gameweek it was played in before the horizon
SingleActivation(x, gw, used) ==
    /\ \A w \in gameweeks : x[w] # 0 => (gw >= 0 /\ w = Start + gw)
    /\ WeekSum(x) <= 1
    /\ (gw = -1 \/ used # 0) => \A w \in gameweeks : x[w] = 0

\* C13: in every feasible assignment of the extended model, for each chip
\* kind the activation variables are non-zero in at most one week, which is
\* start+k, and sum to at most 1 over the horizon; for a kind not requested
\* or already used they are 0 in every week.
C13_SingleActivation ==
    /\ TransferChipsAssigned =>
          /\ SingleActivation(freehit, freehit_gw, freehit_used)
          /\ SingleActivation(wildcard, wildcard_gw, wildcard_used)
    /\ (chips = "added" /\ {"bboost", "threexc"} \subseteq assigned_chips) =>
          /\ SingleActivation(bboost, bboost_gw, bboost_used)
          /\ SingleActivation([w \in gameweeks |-> Cardinality(threexc[w])],
                              threexc_gw, threexc_used)

\* the hit penalty of week w inside the objective of the model, with the
\* week's weight
WeightedPenalty(w) == Weight(chips_objective_type, w - Start) * HitPenalty(w)

\* the weeks for which a wildcard or a free hit was requested
HitChipWeeks ==
    {Start + gw : gw \in {freehit_gw, wildcard_gw} \cap 0..(period - 1)}

\* C14: with a wildcard or a free hit at offset k, the hit penalty in the
\* objective is cancelled for week start+k and for that week only: in every
\* feasible assignment the penalty term of week start+k is 0, and that of
\* every other planned week w is exactly 4 * hits[w] times the week's
\* weight.
C14_PenaltyCancelled ==
    (TransferChipsAssigned /\ HitChipWeeks # {}) =>
        \A w \in gameweeks :
            WeightedPenalty(w) =
                (IF w \in HitChipWeeks THEN 0
                 ELSE Weight(chips_objective_type, w - Start)
                      * HitCost * DecayBenchDen * hits[w])

\* a feasible assignment of the extended model, as far as bench boost and
\* triple captain go: the lineup of a planned week and the two chips
LineupChipsAssigned ==
    /\ chips = "added"
    /\ lineup_week # 0
    /\ {"bboost", "threexc"} \subseteq assigned_chips

\* the weight of week w in the extended objective
WeekWeight(w) == Weight(chips_objective_type, w - Start)

\* the coefficient of player p's expected points of week w in xp + xp_bb
PtsCoefficient(p, w) ==
    WeekWeight(w) * ChipsPlayerCoef(p, w)
    + (IF Requested(bboost_gw) /\ w = Start + bboost_gw
       THEN BboostWeight * BboostCoef(p) ELSE 0)

\* xp + xp_bb is the expected points under these coefficients less the
\* weighted hit penalties
CoefficientsOfObjective ==
    0 - ChipsObjective =
        SetSum(gameweeks,
               [w \in gameweeks |->
                   SetSum(Players,
                          [p \in Players |->
                              PtsCoefficient(p, w) * PtsOf(p, w)])
                   - WeightedPenalty(w)])

\* C15: with bench boost at offset k, each benched squad member of week
\* start+k contributes its expected points to the objective with coefficient
\* exactly 1 and the week weight of that week's starters; in every other
\* week benched players contribute with coefficient decay_bench.
C15_BenchBoost ==
    (LineupChipsAssigned /\ bboost_gw >= 0) =>
        LET w == lineup_week
        IN  /\ CoefficientsOfObjective
            /\ \A p \in team[w] \ starter[w] :
                  PtsCoefficient(p, w) =
                      (IF w = Start + bboost_gw
                       THEN WeekWeight(w) * DecayBenchDen
                       ELSE WeekWeight(w) * DecayBenchNum)
            /\ \A q \in starter[w] \
                        (captain[w] \cup vicecaptain[w] \cup threexc[w]) :
                  PtsCoefficient(q, w) = WeekWeight(w) * DecayBenchDen

\* the lineup of the boosted week, a discounted week, with four on the bench
C15_Witness ==
    /\ LineupChipsAssigned
    /\ bboost_gw = 1
    /\ bboost[Start + 1] = 1
    /\ chips_objective_type = "linear"
    /\ lineup_week = Start + bboost_gw
    /\ Cardinality(team[lineup_week] \ starter[lineup_week]) = 4

\* C16: in every feasible assignment of a model extended with triple captain
\* at offset k, exactly one player has the triple-captain variable set, in
\* week start+k only, that player is the captain of week start+k, and the
\* player's expected points enter that week's term three times.
C16_TripleCaptain ==
    (LineupChipsAssigned /\ threexc_gw >= 0) =>
        /\ Cardinality(threexc[Start + threexc_gw]) = 1
        /\ \A w \in gameweeks \ {Start + threexc_gw} : threexc[w] = {}
        /\ lineup_week = Start + threexc_gw =>
              /\ threexc[lineup_week] = captain[lineup_week]
              /\ \A p \in threexc[lineup_week] :
                    ChipsPlayerCoef(p, lineup_week) = 3 * DecayBenchDen

\* the lineup of the triple-captain week: the captain is tripled
C16_Witness ==
    /\ LineupChipsAssigned
    /\ threexc_gw >= 0
    /\ lineup_week = Start + threexc_gw
    /\ threexc[lineup_week] # {}
    /\ threexc[lineup_week] \subseteq captain[lineup_week]
    /\ vicecaptain[lineup_week] # {}

\* the offsets select_chips_model was called with
CalledOffsets == {freehit_gw, wildcard_gw, bboost_gw, threexc_gw}

\* select_chips_model raised its configuration error and the model has no
\* chip variable, no chip constraint and the objective of build_model
RejectedUntouched ==
    /\ chips = "AssertionError"
    /\ ~chip_variables
    /\ chip_constraints = {}
    /\ ~chips_objective

\* C17: select_chips_model reports a configuration error, before it adds a
\* variable or a constraint or changes the objective, for every chip offset
\* that is neither -1 nor the offset of a planned week: offsets below -1 and
\* offsets at or above the number of planned weeks included.
C17_OffsetsChecked ==
    (chips # "none" /\ CalledOffsets \ PlannedOffsets # {})
        => RejectedUntouched

\* a chip recorded as played before the horizon is requested
UsedChipRequested ==
    \/ freehit_used # 0 /\ freehit_gw >= 0
    \/ wildcard_used # 0 /\ wildcard_gw >= 0
    \/ bboost_used # 0 /\ bboost_gw >= 0
    \/ threexc_used # 0 /\ threexc_gw >= 0

\* C18: if a chip kind is recorded as already used and the caller requests
\* it (offset >= 0), select_chips_model fails with a configuration error and
\* leaves the variables, constraints and objective of the model as they
\* were.
C18_UsedChipRejected ==
    (chips # "none" /\ UsedChipRequested) => RejectedUntouched

\* the wildcard was played last week and is requested for a planned week,
\* every offset being one the other checks accept
C18_Witness ==
    /\ chips = "AssertionError"
    /\ wildcard_used = Start - 1
    /\ wildcard_gw \in 0..(period - 1)
    /\ CalledOffsets \subseteq PlannedOffsets
    /\ freehit_gw = -1

\* C19: called with all four chips at -1 and the objective parameters of
\* build_model, select_chips_model leaves a model equivalent to the base
\* model: every assignment of the base variables stays feasible (the chip
\* variables are all 0) and has the objective value the base model gives it,
\* also when ft_val is not 0.
C19_NoChipsEquivalent ==
    (/\ chips = "added"
     /\ CalledOffsets = {-1}
     /\ chips_objective_type = objective_type
     /\ planned = period) =>
        /\ assigned_chips = {} => ENABLED SolveTransferChips
        /\ assigned_chips # {} =>
              /\ \A w \in gameweeks : freehit[w] = 0 /\ wildcard[w] = 0
              /\ ChipsObjective = Objective

\* the chip kinds active in week w: requested for it, or with a non-zero
\* activation variable
ActiveKinds(w) ==
    {k \in {"freehit", "wildcard", "bboost", "threexc"} :
        \/ k = "freehit" /\ (Start + freehit_gw = w \/ freehit[w] # 0)
        \/ k = "wildcard" /\ (Start + wildcard_gw = w \/ wildcard[w] # 0)
        \/ k = "bboost" /\ (Start + bboost_gw = w \/ bboost[w] # 0)
        \/ k = "threexc" /\ (Start + threexc_gw = w \/ threexc[w] # {})}

\* C20: at most one chip of any kind fires in a given week: no accepted
\* configuration and no feasible assignment has two different chip kinds
\* active in the same planned week.
C20_OneChipPerWeek ==
    chips = "added" =>
        \A w \in gameweeks : Cardinality(ActiveKinds(w)) <= 1

\* C30: in every assignment that satisfies the constraints of build_model,
\* for every planned week the number of players bought equals the number of
\* players sold, so the transfers of a week counted by its sells (as the
\* rollover and hit constraints count them) are the transfers counted by its
\* buys, and that count is between 0 and 15.
C30_BuysEqualSells ==
    \A w \in AssignedWeeks :
        /\ Cardinality(buy[w]) = Cardinality(sell[w])
        /\ number_of_transfers(w) = Cardinality(buy[w])
        /\ number_of_transfers(w) \in 0..SquadSize

\* a week with one transfer after a week with two
C30_Witness ==
    /\ planned = period
    /\ Cardinality(buy[Start]) = 2
    /\ Cardinality(sell[Start]) = 2
    /\ Cardinality(buy[Start + 1]) = 1
    /\ Cardinality(sell[Start + 1]) = 1

\* the hit term of the extended objective: the weighted penalties of the
\* planned weeks
HitTerm == SetSum(gameweeks, [w \in gameweeks |-> WeightedPenalty(w)])

\* C29: in every feasible assignment of the extended model, for every
\* combination of chips and offsets the method accepts, the hit term of the
\* objective is never a bonus: the weighted sum over the planned weeks of
\* hits[w] - wildcard[w] - freehit[w] is at least 0.
C29_NoHitBonus == TransferChipsAssigned => HitTerm >= 0

\* C27: for every offset k of a planned week, the last one included,
\* select_chips_model with the free hit at offset k (not played before, no
\* other chip requested) completes and yields an extended model; it does not
\* fail because week start+k+1 lies outside the planned weeks.
C27_FreeHitLastWeek ==
    (/\ chips # "none"
     /\ freehit_gw \in 0..(period - 1)
     /\ freehit_used = 0
     /\ {wildcard_gw, bboost_gw, threexc_gw} = {-1}) =>
        /\ chips = "added"
        /\ {"initial_freehit", "initial_freehit2", "freehit_once",
             "freehit1", "freehit2"} \subseteq chip_constraints

\* the rollover constraints of the first planned week have a solution, given
\* the anchor week
RolloverFeasible ==
    \E r \in 0..1 :
        /\ con_rolling_condition_1(free_transfers[Start - 1],
                                   number_of_transfers(Start - 1), r)
        /\ con_rolling_condition_2(free_transfers[Start - 1],
                                   number_of_transfers(Start - 1), r)

\* C28: for every transfer history that get_rolling can read, the model
\* assigns the first planned week the free-transfer count "carry-in of
\* get_rolling plus 1": the rule of the model, applied to the anchor week
\* (free_transfers[start-1] = carry-in + 1, less the most recent recorded
\* transfer count), and the rule of get_rolling never disagree.
C28_CarryInAgrees ==
    /\ planned = 0 => RolloverFeasible
    /\ planned >= 1 => free_transfers[Start] = rolling_transfer + 1

\* a complete plan: a squad and a line-up for every planned week
PlanComplete == planned = period /\ lineup_week = Start + period - 1

\* C25: if the anchor squad (the current squad, at week start-1) violates a
\* squad quota (position counts other than 2/5/5/3, or more than 3 players
\* of one club), the model is infeasible: no assignment satisfies its
\* constraints, so no plan that repairs the squad by transfers exists.
C25_QuotaBreakInfeasible ==
    ~SatisfiesQuotas(initial_team) => ~PlanComplete

\* C26: if the budget is insufficient to retain the anchor squad (the bank is
\* negative, so the budget is below the valuation of the anchor squad),
\* build_model raises an error at the time the model is built: it never
\* ends with a built model, and no plan is assigned.
C26_OverdraftRejected ==
    bank < 0 => stage # "built" /\ planned = -1

\* the squad of InitialTeams
AnchorSquad == CHOOSE t \in InitialTeams : TRUE

\* the term of week start inside xp for squad t, starters st, captain c and
\* vice-captain v, hits apart
LineupValue(t, st, c, v) ==
    SetSum(Players,
           [p \in Players |->
               (DecayBenchDen * (Ind(st, p) + Ind(c, p))
                + DecayBenchNum * (Ind(v, p) + Ind(t, p) - Ind(st, p)))
               * PtsOf(p, Start)])

\* the largest member of a set of integers
SetMax(S) == CHOOSE m \in S : \A n \in S : n <= m

\* the most that a captain and a vice-captain among the starters st add
CaptainBonus(st) ==
    SetMax({DecayBenchDen * PtsOf(y[1], Start)
            + DecayBenchNum * PtsOf(y[2], Start) :
               y \in {z \in st \X st : z[1] # z[2]}})

\* the values of the plans of one week that keep the anchor squad: every
\* line-up of it, with the best captain and vice-captain among its starters
KeptValues ==
    {LineupValue(AnchorSquad, st, {}, {}) + CaptainBonus(st) :
        st \in {x \in {AnchorSquad \ out :
                          out \in {o \in SUBSET AnchorSquad :
                                      Cardinality(o) = SquadSize - Starters}} :
                    /\ con_gk_min(x)
                    /\ con_def_min(x)
                    /\ con_mid_min(x)
                    /\ con_for_min(x)}}

\* the best of them
BestKept == SetMax(KeptValues)

\* an assignment of the model with one planned week: week start-1 and week
\* start, with the line-up of week start
OneWeekPlan == planned = 1 /\ lineup_week = Start

\* C24: with a horizon of one planned week, a 15-player anchor squad that
\* satisfies all quotas, a budget equal to its valuation (bank 0), a carry-in
\* of 1 and no chip extension, every optimal plan keeps the anchor squad in
\* week start, with no player bought or sold and hits[start] = 0: so no plan
\* with a transfer in week start has a better objective than the best plan
\* that keeps the anchor squad.
C24_AnchorKept ==
    (/\ OneWeekPlan
     /\ initial_team = AnchorSquad
     /\ SatisfiesQuotas(initial_team)
     /\ bank = 0
     /\ rolling_transfer = 1
     /\ chips = "none"
     /\ WeekTerm(Start, hits[Start]) > BestKept) =>
        /\ team[Start] = initial_team
        /\ buy[Start] = {}
        /\ sell[Start] = {}
        /\ hits[Start] = 0

\* the variables the result file lists
Listed == DOMAIN solution_file.lines

\* C21: after solve returns, every variable of the model that the result
\* file does not list has value 0 and every listed variable has the listed
\* value, after any sequence of solve calls on the same model: no value set
\* by an earlier solve survives into the assignment a later solve decodes.
C21_DecodedAssignment ==
    result = "returned" =>
        \A v \in ModelVariables :
            values[v] = IF v \in Listed THEN solution_file.lines[v] ELSE 0

\* a second solve has returned: a variable that the earlier solve had set to
\* a value other than 0 is not in the new result file, another one is
C21_Witness ==
    /\ solves = 2
    /\ result = "returned"
    /\ process = "exited"
    /\ \E v \in ModelVariables \ Listed :
          values_before[v] # 0 /\ values[v] = 0
    /\ \E v \in Listed : values[v] = solution_file.lines[v] /\ values[v] # 0

\* the last solve ended in a failure: nothing decoded into the variables,
\* nothing handed to pretty_print
SolveFailed ==
    /\ result # "returned"
    /\ report = <<>>
    /\ \A v \in ModelVariables : values[v] = 0

\* C22: when the result of the solver does not carry an optimal status (the
\* model is infeasible, or the status line is missing), solve ends in a
\* failure distinct from "optimal found": it does not decode the values of
\* the file into the model and hands no plan to the report.
C22_NoOptimalStatus ==
    (process = "exited" /\ solution_file.status # "Optimal") => SolveFailed

\* C23: if the solver process is missing or crashes during solve, solve
\* surfaces an error and reports no plan, also when a result file written by
\* an earlier solve with the same model name is still present: the plan of
\* an earlier run is never reported as the result of the failed run.
C23_SolverFailure ==
    process = "failed" => result # "returned" /\ report = <<>>

=============================================================================
